---- MODULE Spec2Model ----
(***************************************************************************)
(* State-machine model of ibc/utils/auth.py, the class                     *)
(* InteractiveBrokersAuthentication: the gateway launch / detection /      *)
(* close lifecycle and the authentication-status requests.                  *)
(*                                                                         *)
(* A Python string is modelled as a "text": a sequence of tokens whose     *)
(* concatenation is the string.  Process names and patterns are tokenised  *)
(* character by character, command output into quote, comma, newline and   *)
(* word tokens, so that pattern matching, splitlines() and the CSV parsing  *)
(* are computed on the text and not assumed.                                *)
(***************************************************************************)
EXTENDS Integers, Sequences, FiniteSets, TLC

\* Largest process id the operating system hands out in the model.
MaxPid == 5

\* Most processes of another origin running when the object is constructed.
MaxForeign == 2

VARIABLES
    is_windows,         \* self.is_windows
    authenticated,      \* self.authenticated
    server_process_id,  \* self.server_process_id
    procs,              \* the operating system's process table
    next_pid,           \* the next process id the operating system hands out
    last,               \* the last call on the object: operation, inputs, outcome
    io                  \* the external effects the last call issued, in order

vars == <<is_windows, authenticated, server_process_id, procs, next_pid, last, io>>

----------------------------------------------------------------------------
(* Python values *)

\* a value is a record of one field, named by the value's type
PyNone == [NoneType |-> "None"]
PyInt(n) == [int |-> n]
PyStr(t) == [str |-> t]
PyBool(b) == [bool |-> b]
PyList(s) == [list |-> s]
\* a dict is kept as its sequence of items, in insertion order
PyDict(items) == [dict |-> items]

\* type(x).__name__
TypeOf(x) == CHOOSE t \in DOMAIN x : TRUE

Item(k, v) == [k |-> k, v |-> v]

DictHas(d, key) == \E i \in 1..Len(d.dict) : d.dict[i].k = key

DictGet(d, key) == d.dict[CHOOSE i \in 1..Len(d.dict) : d.dict[i].k = key].v

\* d[key] = v for a dict: replaces the value of an existing key, else appends
DictSet(d, key, v) ==
    IF DictHas(d, key)
    THEN PyDict([i \in 1..Len(d.dict) |->
                    IF d.dict[i].k = key THEN Item(key, v) ELSE d.dict[i]])
    ELSE PyDict(Append(d.dict, Item(key, v)))

\* str(x), as a text
Str(x) ==
    CASE TypeOf(x) = "NoneType" -> <<"None">>
      [] TypeOf(x) = "int" -> <<ToString(x.int)>>
      [] TypeOf(x) = "str" -> x.str

----------------------------------------------------------------------------
(* Text tokens *)

DQ == "\""
COMMA == ","
NL == "\n"

Interactive == <<"I", "n", "t", "e", "r", "a", "c", "t", "i", "v", "e">>
Brokers == <<"B", "r", "o", "k", "e", "r", "s">>
Python == <<"P", "y", "t", "h", "o", "n">>
API == <<"A", "P", "I">>

\* the four words joined by sep
Title(sep) ==
    Interactive \o <<sep>> \o Brokers \o <<sep>> \o Python \o <<sep>> \o API

\* "Interactive Brokers Python API", the window title given to `start`
WindowTitle == Title(" ")

\* "Interactive_Brokers_Python_API", the name given to `exec -a`
ExecName == Title("_")

\* "root/conf.yaml"
ConfArg == <<"r", "o", "o", "t", "/", "c", "o", "n", "f", ".", "y", "a", "m", "l">>

\* "Interactive Brokers Python API*", the pattern of both listing commands
ListingPattern == Title(" ") \o <<"*">>

InfoMsg == "INFO: No tasks are running which match the specified criteria."

----------------------------------------------------------------------------
(* The operating system: pattern matching, the process table, the commands *)

\* pat matches a prefix of s; pat is a regular expression of literal
\* characters, each optionally followed by "*" (zero or more of it)
RECURSIVE RegexMatchHere(_, _)
RegexMatchHere(pat, s) ==
    IF pat = <<>> THEN TRUE
    ELSE IF Len(pat) >= 2 /\ pat[2] = "*"
         THEN \/ RegexMatchHere(Tail(Tail(pat)), s)
              \/ (s /= <<>> /\ s[1] = pat[1] /\ RegexMatchHere(pat, Tail(s)))
         ELSE s /= <<>> /\ s[1] = pat[1] /\ RegexMatchHere(Tail(pat), Tail(s))

\* pgrep -f: the pattern matches anywhere in the command line
RegexSearch(pat, s) ==
    \E i \in 1..(Len(s) + 1) : RegexMatchHere(pat, SubSeq(s, i, Len(s)))

\* tasklist /fi "WindowTitle eq pat": pat matches the whole title, "*" being
\* a wildcard for any run of characters
RECURSIVE WildcardMatch(_, _)
WildcardMatch(pat, s) ==
    IF pat = <<>> THEN s = <<>>
    ELSE IF pat[1] = "*"
         THEN \E k \in 0..Len(s) : WildcardMatch(Tail(pat), SubSeq(s, k + 1, Len(s)))
         ELSE s /= <<>> /\ s[1] = pat[1] /\ WildcardMatch(Tail(pat), Tail(s))

\* the processes the listing command of the platform reports
Listed(windows, P) ==
    IF windows
    THEN {p \in P : WildcardMatch(ListingPattern, p.name)}
    ELSE {p \in P : RegexSearch(ListingPattern, p.name)}

\* the process ids of P, ascending
RECURSIVE PidsAscending(_)
PidsAscending(P) ==
    IF P = {} THEN <<>>
    ELSE LET m == CHOOSE p \in P : \A q \in P : p.pid <= q.pid
         IN  <<m>> \o PidsAscending(P \ {m})

RECURSIVE Flatten(_)
Flatten(ss) == IF ss = <<>> THEN <<>> ELSE Head(ss) \o Flatten(Tail(ss))

\* stdout of pgrep: one process id per line
PgrepOutput(P) ==
    LET ps == PidsAscending(Listed(FALSE, P))
    IN  Flatten([i \in 1..Len(ps) |-> <<ToString(ps[i].pid), NL>>])

TasklistHeader ==
    <<DQ, "Image Name", DQ, COMMA, DQ, "PID", DQ, COMMA, DQ, "Session Name", DQ,
      COMMA, DQ, "Session#", DQ, COMMA, DQ, "Mem Usage", DQ, NL>>

TasklistRow(p) ==
    <<DQ, p.image, DQ, COMMA, DQ, ToString(p.pid), DQ, COMMA, DQ, "Console", DQ,
      COMMA, DQ, "1", DQ, COMMA, DQ, "4", COMMA, "096 K", DQ, NL>>

\* stdout of tasklist /FO CSV: a header and one row per process, or the
\* INFO message when no process matches the filter
TasklistOutput(P) ==
    LET ps == PidsAscending(Listed(TRUE, P))
    IN  IF ps = <<>> THEN <<InfoMsg, NL>>
        ELSE TasklistHeader \o Flatten([i \in 1..Len(ps) |-> TasklistRow(ps[i])])

\* stdout of the listing command; a tasklist that fails writes its error to
\* stderr and leaves stdout empty (an empty stdout of pgrep is its answer
\* when nothing matches)
ListingStdout(windows, P, ok) ==
    IF windows
    THEN IF ok THEN TasklistOutput(P) ELSE <<>>
    ELSE PgrepOutput(P)

\* the listing command _is_already_running runs
ListingCommand(windows) ==
    IF windows
    THEN <<<<"tasklist">>, <<"/fi">>, <<"WindowTitle eq ">> \o ListingPattern,
           <<"/FO">>, <<"CSV">>>>
    ELSE <<<<"pgrep">>, <<"-f">>, ListingPattern>>

\* the arguments _startup_gateway gives to subprocess.Popen
PopenArgs(windows) ==
    IF windows
    THEN <<<<"cmd">>, <<"/k">>, <<"start">>, WindowTitle, <<"bin\\run.bat">>,
           <<"root\\conf.yaml">>>>
    ELSE <<<<"bash">>, <<"-c">>,
           <<"exec -a ">> \o ExecName \o <<" bin/run.sh ">> \o ConfArg>>

\* the processes subprocess.Popen creates from those arguments, the first of
\* them being the child whose pid Popen reports: on Windows the `cmd /k` shell
\* and the window `start` opens under the given title, on POSIX the one
\* process that `exec -a` names
Spawned(windows, pid) ==
    IF windows
    THEN <<[pid |-> pid, name |-> <<"c", "m", "d">>, image |-> "cmd.exe",
            role |-> "shell"],
           [pid |-> pid + 1, name |-> WindowTitle, image |-> "cmd.exe",
            role |-> "gateway"]>>
    ELSE <<[pid |-> pid, name |-> ExecName \o <<" ">> \o ConfArg, image |-> "bash",
            role |-> "gateway"]>>

\* the command close_gateway runs for a target text
KillCommand(windows, target) ==
    IF windows THEN <<<<"Taskkill">>, <<"/F">>, <<"/PID">>, target>>
    ELSE <<<<"kill">>, <<"-9">>, target>>

\* the processes the kill command ends
Killed(P, target) == {p \in P : <<ToString(p.pid)>> = target}

\* stdout of the kill command: kill prints nothing, Taskkill a SUCCESS line
\* for a process it ended (errors go to stderr)
KillStdout(windows, P, target) ==
    IF windows /\ Killed(P, target) /= {}
    THEN <<"SUCCESS: The process with PID ">> \o target \o <<" has been terminated.", NL>>
    ELSE <<>>

----------------------------------------------------------------------------
(* String and CSV operations of the Python library, on texts *)

\* t.splitlines(): the lines of t without their line ends; no line after a
\* final line end
RECURSIVE SplitLines(_)
SplitLines(t) ==
    IF t = <<>> THEN <<>>
    ELSE IF \E i \in 1..Len(t) : t[i] = NL
         THEN LET i == CHOOSE j \in 1..Len(t) :
                           t[j] = NL /\ \A k \in 1..(j - 1) : t[k] /= NL
              IN  <<SubSeq(t, 1, i - 1)>> \o SplitLines(SubSeq(t, i + 1, Len(t)))
         ELSE <<t>>

\* t.split(sep): the pieces between the separators, empty pieces included
RECURSIVE Split(_, _)
Split(t, sep) ==
    IF \E i \in 1..Len(t) : t[i] = sep
    THEN LET i == CHOOSE j \in 1..Len(t) :
                      t[j] = sep /\ \A k \in 1..(j - 1) : t[k] /= sep
         IN  <<SubSeq(t, 1, i - 1)>> \o Split(SubSeq(t, i + 1, Len(t)), sep)
    ELSE <<t>>

\* t.replace(tok, '')
Remove(t, tok) == SelectSeq(t, LAMBDA x : x /= tok)

\* 'INFO:' in t
ContainsInfo(t) == \E i \in 1..Len(t) : t[i] = InfoMsg

\* csv.reader on one line: commas separate fields, except inside quotes; the
\* quotes are dropped; an empty line is an empty row
RECURSIVE CsvFields(_, _, _, _)
CsvFields(toks, cur, inq, fields) ==
    IF toks = <<>> THEN Append(fields, PyStr(cur))
    ELSE IF Head(toks) = DQ THEN CsvFields(Tail(toks), cur, ~inq, fields)
    ELSE IF Head(toks) = COMMA /\ ~inq
         THEN CsvFields(Tail(toks), <<>>, FALSE, Append(fields, PyStr(cur)))
    ELSE CsvFields(Tail(toks), Append(cur, Head(toks)), inq, fields)

CsvRow(line) == IF line = <<>> THEN <<>> ELSE CsvFields(line, <<>>, FALSE, <<>>)

\* dict(zip(keys, vals))
RECURSIVE ZipDict(_, _, _)
ZipDict(keys, vals, d) ==
    IF keys = <<>> \/ vals = <<>> THEN d
    ELSE ZipDict(Tail(keys), Tail(vals), DictSet(d, Head(keys), Head(vals)))

\* d[key] = None for each of the keys
RECURSIVE FillNone(_, _)
FillNone(keys, d) ==
    IF keys = <<>> THEN d ELSE FillNone(Tail(keys), DictSet(d, Head(keys), PyNone))

\* the dict csv.DictReader makes of one row: the fields under the field
\* names, surplus fields under the key None, missing ones None
DictRow(fieldnames, row) ==
    LET d  == ZipDict(fieldnames, row, PyDict(<<>>))
        lf == Len(fieldnames)
        lr == Len(row)
    IN  IF lf < lr THEN DictSet(d, PyNone, PyList(SubSeq(row, lf + 1, lr)))
        ELSE IF lf > lr THEN FillNone(SubSeq(fieldnames, lr + 1, lf), d)
        ELSE d

\* list(csv.DictReader(f=lines, fieldnames=fieldnames)): empty rows are skipped
RECURSIVE DictReader(_, _)
DictReader(lines, fieldnames) ==
    IF lines = <<>> THEN <<>>
    ELSE LET row == CsvRow(Head(lines))
         IN  (IF row = <<>> THEN <<>> ELSE <<DictRow(fieldnames, row)>>)
                 \o DictReader(Tail(lines), fieldnames)

----------------------------------------------------------------------------
(* _is_already_running *)

KeyIsRunning == PyStr(<<"is_running">>)
KeyData == PyStr(<<"data">>)
KeyPID == PyStr(<<"PID">>)

\* {'is_running': b, 'data': data}
Response(b, data) == PyDict(<<Item(KeyIsRunning, PyBool(b)), Item(KeyData, data)>>)

Raised(spid) == [raised |-> TRUE, ret |-> PyNone, spid |-> spid]
Returned(ret, spid) == [raised |-> FALSE, ret |-> ret, spid |-> spid]

\* data[-1], the slip of taking the last element for the first
LastElement(data) == data[Len(data)]
\* data[0] of a list
FirstElement(data) == data[1]

\* the header line's field names: content[0].replace('"', '').split(',')
Headers(line) ==
    LET hs == Split(Remove(line, DQ), COMMA)
    IN  [i \in 1..Len(hs) |-> PyStr(hs[i])]

\* the Windows branch, content being the stdout of tasklist
is_already_running_windows(content, spid) ==
    IF ContainsInfo(content)
    THEN \* data is the string content; data[0] is its first character, and
         \* the three characters 'PID' are in no string of one character
         Returned(Response(FALSE, PyStr(content)), spid)
    ELSE LET lines == SplitLines(content)
         IN  IF lines = <<>> THEN Raised(spid)    \* content[0]: IndexError
             ELSE LET data == DictReader(Tail(lines), Headers(FirstElement(lines)))
                  IN  IF data = <<>> THEN Raised(spid)    \* data[0]: IndexError
                      ELSE IF DictHas(FirstElement(data), KeyPID)
                      THEN Returned(Response(TRUE, PyList(data)),
                                    DictGet(FirstElement(data), KeyPID))
                      ELSE Returned(Response(FALSE, PyList(data)), spid)

\* the POSIX branch, content being the stdout of pgrep
is_already_running_posix(content, spid) ==
    IF content = <<>>
    THEN Returned(Response(FALSE, PyStr(<<InfoMsg>>)), spid)
    ELSE LET data == SplitLines(content)
         IN  Returned(Response(TRUE, PyList([i \in 1..Len(data) |-> PyStr(data[i])])),
                      PyStr(FirstElement(data)))

\* _is_already_running on the output content of the listing command:
\* whether it raised, what it returned, and server_process_id afterwards
is_already_running(windows, content, spid) ==
    IF windows THEN is_already_running_windows(content, spid)
    ELSE is_already_running_posix(content, spid)

----------------------------------------------------------------------------
(* The object and its operations *)

\* a process of another origin (a gateway window another client opened, a
\* command line holding the title) whose name the listing commands match
Foreign(pid) ==
    [pid |-> pid, name |-> WindowTitle, image |-> "cmd.exe", role |-> "foreign"]

\* the record of a call: the operation, its argument, how it ended ("return"
\* or "raise"), what it returned, and what the call it makes inside gave it
\* (_is_already_running's result, make_request's outcome)
Call(op, arg, outcome, ret, inner) ==
    [op |-> op, arg |-> arg, outcome |-> outcome, ret |-> ret, inner |-> inner]

Outcome(raised) == IF raised THEN "raise" ELSE "return"

\* subprocess.run(args=..., capture_output=True)
Run(args) == [kind |-> "run", args |-> args]
\* subprocess.Popen(**kwargs)
Popen(args) == [kind |-> "popen", args |-> args]
\* webbrowser.open(url=...)
Browser(url) == [kind |-> "browser", url |-> url]
\* self.session.make_request(method=..., endpoint=..., json_payload=...)
Request(method, endpoint, json_payload) ==
    [kind |-> "request", method |-> method, endpoint |-> endpoint,
     json_payload |-> json_payload]

Init ==
    /\ is_windows \in BOOLEAN
    /\ authenticated = FALSE
    /\ server_process_id = PyNone
    /\ \E n \in 0..MaxForeign :
           /\ procs = {Foreign(i) : i \in 1..n}
           /\ next_pid = n + 1
    /\ last = Call("__init__", PyNone, "return", PyNone, PyNone)
    /\ io = <<>>

\* the slip of not keeping the child's pid
NoPid(pid) == PyNone
\* server_process.pid, the pid of the child Popen started
PopenPid(pid) == PyInt(pid)

\* _startup_gateway: the process table, pid counter, server_process_id and
\* effects after it
startup_gateway(windows, P, pid) ==
    LET sp == Spawned(windows, pid)
    IN  [procs |-> P \cup {sp[i] : i \in 1..Len(sp)},
         next_pid |-> pid + Len(sp),
         spid |-> PopenPid(FirstElement(sp).pid),
         io |-> <<Popen(PopenArgs(windows)), Browser("https://localhost:5000")>>]

\* the slip of starting a gateway whatever the response says
AlwaysStart(resp) == TRUE
\* login's test of the response: not is_running_response['is_running']
NotRunning(resp) == ~DictGet(resp, KeyIsRunning).bool

\* the _is_already_running method, called on its own
is_already_running_call ==
    \E ok \in BOOLEAN :
        LET content == ListingStdout(is_windows, procs, ok)
            r == is_already_running(is_windows, content, server_process_id)
        IN  /\ server_process_id' = r.spid
            /\ io' = <<Run(ListingCommand(is_windows))>>
            /\ last' = Call("_is_already_running", PyNone, Outcome(r.raised), r.ret, r)
            /\ UNCHANGED <<is_windows, authenticated, procs, next_pid>>

login ==
    \E ok \in BOOLEAN :
        /\ next_pid + 1 <= MaxPid
        /\ LET content == ListingStdout(is_windows, procs, ok)
               r == is_already_running(is_windows, content, server_process_id)
               run == Run(ListingCommand(is_windows))
               g == startup_gateway(is_windows, procs, next_pid)
           IN  /\ last' = Call("login", PyNone, Outcome(r.raised), PyNone, r)
               /\ IF ~r.raised /\ NotRunning(r.ret)
                  THEN /\ server_process_id' = g.spid
                       /\ procs' = g.procs
                       /\ next_pid' = g.next_pid
                       /\ io' = <<run>> \o g.io
                  ELSE /\ server_process_id' = r.spid
                       /\ io' = <<run>>
                       /\ UNCHANGED <<procs, next_pid>>
        /\ UNCHANGED <<is_windows, authenticated>>

\* the pid close_gateway kills
KillPid(pid, spid) == IF pid = PyNone THEN spid ELSE pid

\* the pids a caller passes to close_gateway
PidArgs == {PyNone} \cup {PyInt(n) : n \in 1..MaxPid}

close_gateway ==
    \E pid \in PidArgs :
        LET target == Str(KillPid(pid, server_process_id))
        IN  /\ procs' = procs \ Killed(procs, target)
            /\ io' = <<Run(KillCommand(is_windows, target))>>
            /\ last' = Call("close_gateway", pid, "return",
                            PyStr(KillStdout(is_windows, procs, target)), PyNone)
            /\ UNCHANGED <<is_windows, authenticated, server_process_id, next_pid>>

----------------------------------------------------------------------------
(* The requests to the gateway *)

KeyAuthenticated == PyStr(<<"authenticated">>)
KeyAcctId == PyStr(<<"acctId">>)

\* what session.make_request returns: a status saying authenticated, one
\* saying not, a body without the key, or nothing
Responses ==
    { PyDict(<<Item(KeyAuthenticated, PyBool(TRUE))>>),
      PyDict(<<Item(KeyAuthenticated, PyBool(FALSE))>>),
      PyDict(<<Item(PyStr(<<"error">>), PyStr(<<"not authenticated">>))>>),
      PyNone }

\* how a request ends: it raises, or returns one of the responses
Outcomes ==
    {[raised |-> TRUE, resp |-> PyNone]}
        \cup {[raised |-> FALSE, resp |-> r] : r \in Responses}

\* the account ids a caller passes to update_server_account
AccountIds == {PyStr(<<"U1">>), PyStr(<<"DU2">>)}

\* the slip of a copied endpoint
CopiedEndpoint == "/api/iserver/auth/status"
StatusEndpoint == "/api/iserver/auth/status"
AccountEndpoint == "/api/iserver/account"
ValidateEndpoint == "/api/sso/validate"
ReauthenticateEndpoint == "/api/iserver/reauthenticate"

\* the four methods that make one request and return its content, the
\* request ending as o
is_authenticated ==
    \E o \in Outcomes :
        /\ io' = <<Request("post", StatusEndpoint, PyNone)>>
        /\ last' = Call("is_authenticated", PyNone, Outcome(o.raised), o.resp, o)
        /\ UNCHANGED <<is_windows, authenticated, server_process_id, procs, next_pid>>

update_server_account ==
    \E o \in Outcomes, account_id \in AccountIds :
        /\ io' = <<Request("post", AccountEndpoint, PyDict(<<Item(KeyAcctId, account_id)>>))>>
        /\ last' = Call("update_server_account", account_id, Outcome(o.raised), o.resp, o)
        /\ UNCHANGED <<is_windows, authenticated, server_process_id, procs, next_pid>>

sso_validate ==
    \E o \in Outcomes :
        /\ io' = <<Request("post", ValidateEndpoint, PyNone)>>
        /\ last' = Call("sso_validate", PyNone, Outcome(o.raised), o.resp, o)
        /\ UNCHANGED <<is_windows, authenticated, server_process_id, procs, next_pid>>

reauthenticate ==
    \E o \in Outcomes :
        /\ io' = <<Request("post", ReauthenticateEndpoint, PyNone)>>
        /\ last' = Call("reauthenticate", PyNone, Outcome(o.raised), o.resp, o)
        /\ UNCHANGED <<is_windows, authenticated, server_process_id, procs, next_pid>>

\* check_auth's try block on the outcome o of its status request gives
\* whether an exception leaves check_auth, and the authenticated flag afterwards
\* the slip of a try block that catches nothing
CheckAuthUncaught(o, auth) ==
    IF o.raised \/ TypeOf(o.resp) /= "dict" \/ ~DictHas(o.resp, KeyAuthenticated)
    THEN [raised |-> TRUE, authenticated |-> auth]
    ELSE [raised |-> FALSE,
          authenticated |-> auth \/ DictGet(o.resp, KeyAuthenticated) = PyBool(TRUE)]
\* the slip of assigning the response's flag, True or False
CheckAuthAssign(o, auth) ==
    IF o.raised \/ TypeOf(o.resp) /= "dict" \/ ~DictHas(o.resp, KeyAuthenticated)
    THEN [raised |-> FALSE, authenticated |-> auth]
    ELSE [raised |-> FALSE,
          authenticated |-> DictGet(o.resp, KeyAuthenticated) = PyBool(TRUE)]
\* the try block of check_auth
CheckAuth(o, auth) ==
    IF o.raised THEN [raised |-> FALSE, authenticated |-> auth]
    \* response['authenticated'] of None: TypeError, caught
    ELSE IF TypeOf(o.resp) /= "dict" THEN [raised |-> FALSE, authenticated |-> auth]
    \* response['authenticated'] of a dict without the key: KeyError, caught
    ELSE IF ~DictHas(o.resp, KeyAuthenticated)
         THEN [raised |-> FALSE, authenticated |-> auth]
    ELSE IF DictGet(o.resp, KeyAuthenticated) = PyBool(TRUE)
         THEN [raised |-> FALSE, authenticated |-> TRUE]
    ELSE [raised |-> FALSE, authenticated |-> auth]

\* check_auth
check_auth ==
    \E o \in Outcomes :
        LET c == CheckAuth(o, authenticated)
        IN  /\ authenticated' = c.authenticated
            /\ io' = <<Request("post", StatusEndpoint, PyNone)>>
            /\ last' = Call("check_auth", PyNone, Outcome(c.raised), PyNone, o)
            /\ UNCHANGED <<is_windows, server_process_id, procs, next_pid>>

Next ==
    \/ login
    \/ is_already_running_call
    \/ close_gateway
    \/ is_authenticated
    \/ update_server_account
    \/ sso_validate
    \/ reauthenticate
    \/ check_auth

Spec == Init /\ [][Next]_vars

----------------------------------------------------------------------------
(* Properties *)

\* what the call recorded in rec found: the detection returned is_running b
Reported(rec, b) ==
    /\ ~rec.inner.raised
    /\ DictGet(rec.inner.ret, KeyIsRunning) = PyBool(b)

\* the effects of kind k among the effects e
Count(e, k) == Cardinality({i \in 1..Len(e) : e[i].kind = k})

Gateways(P) == {p \in P : p.role = "gateway"}

\* C1: login() starts a gateway subprocess and opens the browser exactly
\* when its _is_already_running() check returned is_running False; when the
\* check returned True (or did not return) it starts nothing and opens nothing.
C1_LaunchIffNotRunning ==
    [][ last'.op = "login" =>
          IF Reported(last', FALSE)
          THEN /\ Count(io', "popen") = 1
               /\ Count(io', "browser") = 1
               /\ Gateways(procs') \ procs /= {}
          ELSE /\ Count(io', "popen") = 0
               /\ Count(io', "browser") = 0
               /\ procs' = procs ]_vars

C1_Witness ==
    /\ last.op = "login"
    /\ Reported(last, TRUE)
    /\ Count(io, "popen") = 0

\* C2: while a gateway that _startup_gateway() launched is alive, every
\* _is_already_running() reports is_running True, and a login() launches no
\* further gateway.
C2_LaunchedGatewayDetected ==
    [][ (last'.op \in {"login", "_is_already_running"} /\ Gateways(procs) /= {}) =>
          /\ ~last'.inner.raised => Reported(last', TRUE)
          /\ Gateways(procs') \subseteq Gateways(procs) ]_vars

\* C3: check_auth() always returns normally; when the status request raised
\* or its response has no 'authenticated' key, the authenticated flag and
\* server_process_id are as before.
C3_CheckAuthSwallows ==
    [][ last'.op = "check_auth" =>
          /\ last'.outcome = "return"
          /\ ( \/ last'.inner.raised
               \/ TypeOf(last'.inner.resp) /= "dict"
               \/ ~DictHas(last'.inner.resp, KeyAuthenticated) )
             => /\ authenticated' = authenticated
                /\ server_process_id' = server_process_id ]_vars

C3_Witness ==
    /\ last.op = "check_auth"
    /\ last.inner.raised
    /\ last.outcome = "return"

\* C4: _is_already_running() never fails: whatever the listing command
\* printed, it returns a response with a boolean is_running and a data field.
C4_DetectionNeverFails ==
    last.op \in {"login", "_is_already_running"} =>
        /\ ~last.inner.raised
        /\ TypeOf(last.inner.ret) = "dict"
        /\ DictHas(last.inner.ret, KeyIsRunning)
        /\ TypeOf(DictGet(last.inner.ret, KeyIsRunning)) = "bool"
        /\ DictHas(last.inner.ret, KeyData)

\* C5: a login() that returns, returns a dict (the process resource), whether
\* it launched a gateway or found one running.
C5_LoginReturnsDict ==
    (last.op = "login" /\ last.outcome = "return") => TypeOf(last.ret) = "dict"

\* the endpoint and payload the forwarding methods are to use
C6_Expected(rec) ==
    CASE rec.op = "is_authenticated" ->
            Request("post", "/api/iserver/auth/status", PyNone)
      [] rec.op = "reauthenticate" ->
            Request("post", "/api/iserver/reauthenticate", PyNone)
      [] rec.op = "sso_validate" ->
            Request("post", "/api/sso/validate", PyNone)
      [] rec.op = "update_server_account" ->
            Request("post", "/api/iserver/account",
                    PyDict(<<Item(PyStr(<<"acctId">>), rec.arg)>>))

\* C6: is_authenticated(), reauthenticate(), sso_validate() and
\* update_server_account(account_id) each make exactly one POST request, to
\* their own endpoint, return what the session returned, and leave the
\* authenticated flag and server_process_id as they were.
C6_ForwardOneRequest ==
    [][ last'.op \in {"is_authenticated", "reauthenticate", "sso_validate",
                      "update_server_account"} =>
          /\ io' = <<C6_Expected(last')>>
          /\ last'.outcome = Outcome(last'.inner.raised)
          /\ ~last'.inner.raised => last'.ret = last'.inner.resp
          /\ authenticated' = authenticated
          /\ server_process_id' = server_process_id ]_vars

C6_Witness ==
    /\ last.op = "reauthenticate"
    /\ last.outcome = "return"
    /\ TypeOf(last.ret) = "dict"
    /\ authenticated

\* C7: close_gateway(pid) runs exactly one kill command, for pid when one is
\* given and else for the tracked server_process_id, which is then a process
\* id an earlier launch or detection recorded; it returns the command's
\* output as a string and leaves server_process_id and the flag as they were.
C7_CloseKillsTrackedPid ==
    [][ last'.op = "close_gateway" =>
          /\ io' = <<Run(KillCommand(is_windows,
                        Str(IF last'.arg = PyNone THEN server_process_id
                            ELSE last'.arg)))>>
          /\ last'.arg = PyNone => TypeOf(server_process_id) \in {"int", "str"}
          /\ last'.outcome = "return"
          /\ TypeOf(last'.ret) = "str"
          /\ server_process_id' = server_process_id
          /\ authenticated' = authenticated ]_vars

\* C8: the authenticated flag starts False, changes only in a check_auth()
\* whose status response has authenticated True, and once True stays True.
C8_AuthenticatedMonotonic ==
    /\ ~authenticated
    /\ [][ /\ authenticated => authenticated'
           /\ authenticated' /= authenticated =>
                /\ last'.op = "check_auth"
                /\ ~last'.inner.raised
                /\ last'.inner.resp = PyDict(<<Item(KeyAuthenticated, PyBool(TRUE))>>) ]_vars

C8_Witness ==
    /\ authenticated
    /\ last.op = "check_auth"
    /\ last.inner.resp = PyDict(<<Item(KeyAuthenticated, PyBool(FALSE))>>)

\* the first process id the listing command reports: the smallest listed
FirstListedPid(windows, P) ==
    LET L == Listed(windows, P)
    IN  PyStr(<<ToString((CHOOSE p \in L : \A q \in L : p.pid <= q.pid).pid)>>)

\* C9: when _is_already_running() returns is_running True it has set
\* server_process_id to the first process id the listing command reported;
\* when it returns is_running False it has left server_process_id as it was.
C9_DetectionSetsFirstPid ==
    [][ (last'.op \in {"login", "_is_already_running"} /\ ~last'.inner.raised) =>
          /\ Reported(last', TRUE) =>
                /\ Listed(is_windows, procs) /= {}
                /\ last'.inner.spid = FirstListedPid(is_windows, procs)
          /\ Reported(last', FALSE) => last'.inner.spid = server_process_id
          /\ last'.op = "_is_already_running" =>
                server_process_id' = last'.inner.spid ]_vars

C9_Witness ==
    /\ last.op = "_is_already_running"
    /\ Reported(last, TRUE)
    /\ Cardinality(Listed(is_windows, procs)) >= 2
    /\ server_process_id = FirstListedPid(is_windows, procs)

\* C10: after a login() that returns, server_process_id is not None: it is
\* the process id the detection reported, or the pid of the subprocess just
\* launched; and once it is not None it never is None again.
C10_LoginSetsProcessId ==
    [][ /\ server_process_id /= PyNone => server_process_id' /= PyNone
        /\ (last'.op = "login" /\ last'.outcome = "return") =>
             /\ server_process_id' /= PyNone
             /\ Reported(last', TRUE) => server_process_id' = last'.inner.spid
             /\ Reported(last', FALSE) =>
                  \E p \in procs' \ procs : server_process_id' = PyInt(p.pid) ]_vars

C10_Witness ==
    /\ last.op = "login"
    /\ last.outcome = "return"
    /\ Reported(last, FALSE)
    /\ TypeOf(server_process_id) = "int"

====
